---- MODULE Spec2Model ----
(***************************************************************************)
(* Model of charj's dynamic pricing service                                *)
(* (src/charj/cards/pricing_service.py): parameter validation, lookup-key  *)
(* generation and the three-tier get_or_create_price resolution, run by    *)
(* concurrent callers against a shared local djstripe Price table and the  *)
(* Stripe price catalogue; of create_subscription_view                     *)
(* (src/charj/cards/views.py), which calls it; of the CardDisplay          *)
(* properties (src/charj/cards/services.py); and of the request-context    *)
(* middleware (src/config/logging.py).                                     *)
(***************************************************************************)
EXTENDS Integers, Sequences, FiniteSets, TLC

\* ---------------------------------------------------------------- bounds
NumCallers == 2
MaxCalls == 2
\* how far around each validation bound the probed arguments reach
Margin == 2

Callers == 1..NumCallers

\* ------------------------------------------------------- program constants
\* getattr defaults of validate_pricing_parameters
STRIPE_MIN_AMOUNT_CENTS == 50
STRIPE_MAX_AMOUNT_CENTS == 100000
STRIPE_MAX_INTERVAL_COUNT == 36
STRIPE_ALLOWED_INTERVALS == <<"day", "week", "month", "year">>

\* ------------------------------------------------------------------ inputs
Shape(amount_cents, interval, interval_count) ==
    [amount_cents |-> amount_cents, interval |-> interval,
     interval_count |-> interval_count]

\* the shapes get_or_create_price is called with: two that validate, and one
\* that fails each kind of check
InputShapes ==
    { Shape(100, "year", 1), Shape(500, "month", 3),
      Shape(49, "year", 1), Shape(100, "biweekly", 1), Shape(100, "year", 0) }

\* the values settings.STRIPE_PRODUCT_ID takes: attribute absent, empty, set
SettingsChoices ==
    { <<>>, [STRIPE_PRODUCT_ID |-> ""], [STRIPE_PRODUCT_ID |-> "prod_test_123"] }

\* what the exceptions of the two collaborators are
StripeErrorDetails == {"api_connection_error", "rate_limit_error"}
SyncFailures == {"StripeError", "DatabaseError"}

\* ------------------------------------------------------------------- state
VARIABLES
    settings,     \* django settings: a record holding the attributes that are set
    mirror,       \* local djstripe Price rows, in primary-key (insertion) order
    remote,       \* the prices at Stripe, in creation order
    nCalls,       \* get_or_create_price calls started so far
    pc,           \* per caller: where its get_or_create_price call stands
    args,         \* per caller: the shape it was called with
    lookup_key,   \* per caller: the local lookup_key
    stripe_price, \* per caller: the local stripe_price (tier 2)
    new_price,    \* per caller: the local new_price (tier 3)
    e,            \* per caller: the StripeError caught at line 187
    result,       \* per caller: what the call returned or raised
    trace,        \* per caller: the steps this call has taken
    prior,        \* per caller: the last call completed for its key when it began
    last,         \* per lookup key: the last completed call (outcome, first and
                  \* final step)
    probe,        \* a call of one of the pure functions: its arguments and result
    view,         \* per worker: the create_subscription_view request it serves
    payment_methods, \* the processor's payment methods: the customer of each
    subscriptions,   \* the subscriptions created at the processor
    middleware,   \* RequestContextMiddleware.__call__: where it stands
    context_vars  \* the seven ContextVars of config/logging.py

vars == <<settings, mirror, remote, nCalls, pc, args, lookup_key, stripe_price,
          new_price, e, result, trace, prior, last, probe, view,
          payment_methods, subscriptions, middleware, context_vars>>

\* the state of the web layer
WebVars == <<view, payment_methods, subscriptions, middleware, context_vars>>

\* ------------------------------------------------------------ pure helpers
Range(s) == {s[i] : i \in DOMAIN s}

\* f"{cents / 100:.2f}" for integral cents >= 0
Fixed2(cents) ==
    ToString(cents \div 100) \o "."
        \o ToString((cents % 100) \div 10) \o ToString(cents % 10)

NoMessage == ""

\* getattr(settings, name, default)
Getattr(s, name, default) == IF name \in DOMAIN s THEN s[name] ELSE default

\* sep.join(strings)
RECURSIVE Join(_, _)
Join(strings, sep) ==
    IF strings = <<>> THEN ""
    ELSE IF Len(strings) = 1 THEN strings[1]
    ELSE strings[1] \o sep \o Join(Tail(strings), sep)

\* (mutant) the lower bound tested with <=
AmountErrorOffByOne(amount_cents) ==
    LET min_amount == Getattr(settings, "STRIPE_MIN_AMOUNT_CENTS",
                              STRIPE_MIN_AMOUNT_CENTS)
        max_amount == Getattr(settings, "STRIPE_MAX_AMOUNT_CENTS",
                              STRIPE_MAX_AMOUNT_CENTS)
    IN  IF amount_cents <= min_amount
        THEN "Amount must be at least " \o ToString(min_amount)
                \o " cents ($" \o Fixed2(min_amount) \o ")"
        ELSE IF amount_cents > max_amount
        THEN "Amount cannot exceed " \o ToString(max_amount)
                \o " cents ($" \o Fixed2(max_amount) \o ")"
        ELSE NoMessage

\* lines 36-45: the amount check (the arguments are integers: the view passes
\* int(...) values, so isinstance(amount_cents, int) holds)
AmountError(amount_cents) ==
    LET min_amount == Getattr(settings, "STRIPE_MIN_AMOUNT_CENTS",
                              STRIPE_MIN_AMOUNT_CENTS)
        max_amount == Getattr(settings, "STRIPE_MAX_AMOUNT_CENTS",
                              STRIPE_MAX_AMOUNT_CENTS)
    IN  IF amount_cents < min_amount
        THEN "Amount must be at least " \o ToString(min_amount)
                \o " cents ($" \o Fixed2(min_amount) \o ")"
        ELSE IF amount_cents > max_amount
        THEN "Amount cannot exceed " \o ToString(max_amount)
                \o " cents ($" \o Fixed2(max_amount) \o ")"
        ELSE NoMessage

\* (mutant) the interval check left out
IntervalErrorNever(interval) == NoMessage

\* lines 47-56: the interval check
IntervalError(interval) ==
    LET allowed_intervals == Getattr(settings, "STRIPE_ALLOWED_INTERVALS",
                                     STRIPE_ALLOWED_INTERVALS)
    IN  IF interval \notin Range(allowed_intervals)
        THEN "Invalid interval '" \o interval \o "'. Must be one of: "
                \o Join(allowed_intervals, ", ")
        ELSE NoMessage

\* (mutant) the upper bound tested with >=
IntervalCountErrorOffByOne(interval_count) ==
    LET max_interval_count == Getattr(settings, "STRIPE_MAX_INTERVAL_COUNT",
                                      STRIPE_MAX_INTERVAL_COUNT)
    IN  IF interval_count < 1
        THEN "Interval count must be at least 1"
        ELSE IF interval_count >= max_interval_count
        THEN "Interval count cannot exceed " \o ToString(max_interval_count)
        ELSE NoMessage

\* lines 58-65: the interval_count check
IntervalCountError(interval_count) ==
    LET max_interval_count == Getattr(settings, "STRIPE_MAX_INTERVAL_COUNT",
                                      STRIPE_MAX_INTERVAL_COUNT)
    IN  IF interval_count < 1
        THEN "Interval count must be at least 1"
        ELSE IF interval_count > max_interval_count
        THEN "Interval count cannot exceed " \o ToString(max_interval_count)
        ELSE NoMessage

\* (mutant) the interval validated before the amount
validate_pricing_parameters_interval_first(amount_cents, interval, interval_count) ==
    IF IntervalError(interval) # NoMessage THEN IntervalError(interval)
    ELSE IF AmountError(amount_cents) # NoMessage THEN AmountError(amount_cents)
    ELSE IntervalCountError(interval_count)

\* the message of the InvalidPricingParametersError raised, NoMessage if none
validate_pricing_parameters(amount_cents, interval, interval_count) ==
    LET amount_error == AmountError(amount_cents)
        interval_error == IntervalError(interval)
    IN  IF amount_error # NoMessage THEN amount_error
        ELSE IF interval_error # NoMessage THEN interval_error
        ELSE IntervalCountError(interval_count)

\* (mutant) the key without its separators
generate_lookup_key_unseparated(amount_cents, interval, interval_count) ==
    interval \o ToString(interval_count) \o ToString(amount_cents)

\* (mutant) the key with the amount before the count
generate_lookup_key_amount_first(amount_cents, interval, interval_count) ==
    interval \o "_" \o ToString(amount_cents) \o "_" \o ToString(interval_count)

generate_lookup_key(amount_cents, interval, interval_count) ==
    interval \o "_" \o ToString(interval_count) \o "_" \o ToString(amount_cents)

\* (mutant) always two decimals
format_price_display_two_decimals(amount_cents) == "$" \o Fixed2(amount_cents)

\* lines 229-232, for amount_cents >= 0: amount_cents / 100 equals its integer
\* part exactly when amount_cents is a multiple of 100; otherwise the quotient
\* is printed with two decimals, which are the cents
format_price_display(amount_cents) ==
    IF amount_cents % 100 = 0
    THEN "$" \o ToString(amount_cents \div 100)
    ELSE "$" \o Fixed2(amount_cents)

\* dict.get(key, default)
DictGet(dict, key, default) == IF key \in DOMAIN dict THEN dict[key] ELSE default

\* (mutant) every interval pluralised by suffixing "s", no adverbs
format_frequency_display_suffixing(interval, interval_count) ==
    IF interval_count = 1
    THEN "every " \o interval
    ELSE "every " \o ToString(interval_count) \o " " \o interval \o "s"

\* lines 246-263
format_frequency_display(interval, interval_count) ==
    IF interval_count = 1
    THEN LET interval_names == [day |-> "daily", week |-> "weekly",
                                month |-> "monthly", year |-> "yearly"]
         IN  DictGet(interval_names, interval, "every " \o interval)
    ELSE LET plural_intervals == [day |-> "days", week |-> "weeks",
                                  month |-> "months", year |-> "years"]
             interval_plural == DictGet(plural_intervals, interval, interval \o "s")
         IN  "every " \o ToString(interval_count) \o " " \o interval_plural

\* ------------------------------------------------ services.py: CardDisplay
\* an attribute typed `T | None`: None, or a value
None == <<>>
Some(v) == <<v>>
Value(opt) == opt[1]

\* (mutant) a subscription is recognised by its status
has_subscription_by_status(self) == self.subscription_status # None

\* lines 68-71
has_subscription(self) == self.subscription_id # None

\* lines 73-76
is_active(self) == self.subscription_status = Some("active")

\* lines 78-83
subscription_amount_display(self) ==
    IF self.subscription_amount_cents = None
    THEN None
    ELSE Some(format_price_display(Value(self.subscription_amount_cents)))

\* `not x` for a str | None attribute; `x or 1` for an int | None attribute
NotStr(opt) == opt = None \/ opt = Some("")
OrOne(opt) == IF opt = None \/ opt = Some(0) THEN 1 ELSE Value(opt)

\* (mutant) the slash form whatever the count
subscription_price_display_slash(self) ==
    IF self.subscription_amount_cents = None THEN None
    ELSE IF NotStr(self.subscription_interval) THEN subscription_amount_display(self)
    ELSE Some(Value(subscription_amount_display(self)) \o "/"
                 \o Value(self.subscription_interval))

\* lines 95-116; the amount string is never empty, so `not amount` is
\* `amount is None`
subscription_price_display(self) ==
    LET amount == subscription_amount_display(self)
        count == OrOne(self.subscription_interval_count)
        plural_intervals == [day |-> "days", week |-> "weeks",
                             month |-> "months", year |-> "years"]
    IN  IF amount = None THEN None
        ELSE IF NotStr(self.subscription_interval) THEN amount
        ELSE IF count = 1
        THEN Some(Value(amount) \o "/" \o Value(self.subscription_interval))
        ELSE Some(Value(amount) \o " every " \o ToString(count) \o " "
                     \o DictGet(plural_intervals, Value(self.subscription_interval),
                                Value(self.subscription_interval) \o "s"))

KeyOf(shape) ==
    generate_lookup_key(shape.amount_cents, shape.interval, shape.interval_count)

ValidShapes ==
    {s \in InputShapes :
        validate_pricing_parameters(s.amount_cents, s.interval, s.interval_count)
            = NoMessage}

ValidKeys == {KeyOf(s) : s \in ValidShapes}

NoShape == [amount_cents |-> 0, interval |-> "", interval_count |-> 0]
NoLookupKey == ""
NoPrice == [id |-> "", lookup_key |-> NoLookupKey, active |-> FALSE,
            unit_amount |-> 0, interval |-> "", interval_count |-> 0,
            product |-> ""]
NoResult == [kind |-> "none", value |-> ""]
NoCall == [result |-> NoResult, first |-> "", final |-> ""]
NoProbe == [fn |-> "none", args |-> NoShape, out |-> ""]

Returned(id) == [kind |-> "price_id", value |-> id]
Raised(cls, msg) == [kind |-> cls, value |-> msg]

NoProductMessage == "STRIPE_PRODUCT_ID not configured. Cannot create dynamic prices."

\* getattr(settings, "STRIPE_PRODUCT_ID", None): <<v>> when set, <<>> for None
ProductIdSetting(s) ==
    IF "STRIPE_PRODUCT_ID" \in DOMAIN s THEN <<s.STRIPE_PRODUCT_ID>> ELSE <<>>

\* (mutant) the product test written as `product_id is None`
FalsyNoneOnly(v) == v = <<>>

\* python truthiness of the setting
Falsy(v) == v = <<>> \/ v = <<"">>

\* ------------------------------------------------ views.py: the web layer
\* request.user: the anonymous user, a user with a Customer row, one without
Anonymous == ""
Users == {Anonymous, "alice", "carol"}
Customers == [alice |-> "cus_alice"]
NoCustomer == ""

\* the payment methods at the processor and the customer each is attached to
PaymentMethodsAtStart == [pm_alice |-> "cus_alice", pm_other |-> "cus_other"]

\* a JSON field read for int(...): absent, a number, or a value int() rejects
Absent == [kind |-> "absent", n |-> 0]
Number(n) == [kind |-> "int", n |-> n]
Junk == [kind |-> "junk", n |-> 0]

Request(user, valid_json, payment_method_id, amount_cents, interval, interval_count) ==
    [user |-> user, valid_json |-> valid_json,
     payment_method_id |-> payment_method_id, amount_cents |-> amount_cents,
     interval |-> interval, interval_count |-> interval_count]
NoRequest == Request(Anonymous, FALSE, None, Absent, None, Absent)

JsonResponse(status, error) == [status |-> status, error |-> error]
NoResponse == JsonResponse(0, "")

IdleView ==
    [pc |-> "idle", request |-> NoRequest, shape |-> NoShape,
     response |-> NoResponse, calls |-> <<>>]

\* lines 11-17 of config/logging.py: every ContextVar at its default
NoContext ==
    [request_id |-> None, session_id |-> None, user_id |-> None,
     user_email |-> None, request_path |-> None, request_method |-> None,
     ip_address |-> None]

WebInit ==
    /\ view = [p \in Callers |-> IdleView]
    /\ payment_methods = PaymentMethodsAtStart
    /\ subscriptions = <<>>
    /\ middleware = "idle"
    /\ context_vars = NoContext

Init ==
    /\ settings \in SettingsChoices
    /\ mirror = <<>>
    /\ remote = <<>>
    /\ nCalls = 0
    /\ pc = [p \in Callers |-> "idle"]
    /\ args = [p \in Callers |-> NoShape]
    /\ lookup_key = [p \in Callers |-> NoLookupKey]
    /\ stripe_price = [p \in Callers |-> NoPrice]
    /\ new_price = [p \in Callers |-> NoPrice]
    /\ e = [p \in Callers |-> NoMessage]
    /\ result = [p \in Callers |-> NoResult]
    /\ trace = [p \in Callers |-> <<>>]
    /\ prior = [p \in Callers |-> NoCall]
    /\ last = [k \in ValidKeys |-> NoCall]
    /\ probe = NoProbe
    /\ WebInit

\* ------------------------------------------------- the two collaborators
\* Price.objects.filter(lookup_key=..., active=True): the matching rows, by pk
MirrorFilter(m, key) ==
    LET Match(row) == row.lookup_key = key /\ row.active
    IN  SelectSeq(m, Match)

\* Price.sync_from_stripe_data(data): insert the row, or update the row of that id
sync_from_stripe_data(m, data) ==
    IF \E i \in DOMAIN m : m[i].id = data.id
    THEN [i \in DOMAIN m |-> IF m[i].id = data.id THEN data ELSE m[i]]
    ELSE Append(m, data)

Reverse(s) == [i \in DOMAIN s |-> s[Len(s) + 1 - i]]

\* (mutant) the list not filtered by lookup key
StripePriceListAnyKey(r, key) ==
    LET Match(price) == price.active
    IN  Reverse(SelectSeq(r, Match))

\* stripe.Price.list(lookup_keys=[key], active=True).data: newest first
StripePriceList(r, key) ==
    LET Match(price) == price.lookup_key = key /\ price.active
    IN  Reverse(SelectSeq(r, Match))

PriceId(n) == "price_" \o ToString(n)

\* the price object stripe.Price.create(...) answers with
NewPrice(r, product_id, shape, key) ==
    [id |-> PriceId(Len(r) + 1), lookup_key |-> key, active |-> TRUE,
     unit_amount |-> shape.amount_cents, interval |-> shape.interval,
     interval_count |-> shape.interval_count, product |-> product_id]

\* stripe.Price.create(..., lookup_key=key, transfer_lookup_key=True): the new
\* price takes the lookup key away from the price that held it
StripePriceCreate(r, product_id, shape, key) ==
    Append([i \in DOMAIN r |->
               IF r[i].lookup_key = key
               THEN [r[i] EXCEPT !.lookup_key = NoLookupKey]
               ELSE r[i]],
           NewPrice(r, product_id, shape, key))

\* ---------------------------------------------------- get_or_create_price
\* the call of caller p takes the step `name` and goes on at `label`
Continue(p, label, name) ==
    /\ pc' = [pc EXCEPT ![p] = label]
    /\ trace' = [trace EXCEPT ![p] = Append(@, name)]
    /\ UNCHANGED <<result, last>>

\* the call of caller p takes the step `name` and ends with `res`
Finish(p, res, name) ==
    /\ pc' = [pc EXCEPT ![p] = "done"]
    /\ trace' = [trace EXCEPT ![p] = Append(@, name)]
    /\ result' = [result EXCEPT ![p] = res]
    /\ last' = [last EXCEPT ![lookup_key[p]] =
                   [result |-> res, first |-> Append(trace[p], name)[1],
                    final |-> name]]

\* (mutant) the mirror is queried before the parameters are validated
CallQueryingFirst(p) ==
    /\ pc[p] \in {"idle", "done"}
    /\ \A q \in Callers : q < p => pc[q] # "idle"
    /\ nCalls < MaxCalls
    /\ nCalls' = nCalls + 1
    /\ \E shape \in InputShapes :
         LET msg == validate_pricing_parameters(
                        shape.amount_cents, shape.interval, shape.interval_count)
             key == KeyOf(shape)
         IN  /\ args' = [args EXCEPT ![p] = shape]
             /\ IF msg # NoMessage
                THEN /\ pc' = [pc EXCEPT ![p] = "done"]
                     /\ result' = [result EXCEPT ![p] =
                                      Raised("InvalidPricingParametersError", msg)]
                     /\ trace' = [trace EXCEPT ![p] = <<"t1_miss", "invalid">>]
                     /\ lookup_key' = [lookup_key EXCEPT ![p] = NoLookupKey]
                     /\ prior' = [prior EXCEPT ![p] = NoCall]
                ELSE /\ pc' = [pc EXCEPT ![p] = "tier1"]
                     /\ result' = [result EXCEPT ![p] = NoResult]
                     /\ trace' = [trace EXCEPT ![p] = <<>>]
                     /\ lookup_key' = [lookup_key EXCEPT ![p] = key]
                     /\ prior' = [prior EXCEPT ![p] = last[key]]
    /\ stripe_price' = [stripe_price EXCEPT ![p] = NoPrice]
    /\ new_price' = [new_price EXCEPT ![p] = NoPrice]
    /\ e' = [e EXCEPT ![p] = NoMessage]
    /\ UNCHANGED <<probe, WebVars>>
    /\ UNCHANGED <<settings, mirror, remote, last>>

\* entry (lines 111-114): validate the parameters, compute the lookup key
\* callers are interchangeable: they are numbered in the order of their first call
Call(p) ==
    /\ pc[p] \in {"idle", "done"}
    /\ \A q \in Callers : q < p => pc[q] # "idle"
    /\ nCalls < MaxCalls
    /\ nCalls' = nCalls + 1
    /\ \E shape \in InputShapes :
         LET msg == validate_pricing_parameters(
                        shape.amount_cents, shape.interval, shape.interval_count)
             key == KeyOf(shape)
         IN  /\ args' = [args EXCEPT ![p] = shape]
             /\ IF msg # NoMessage
                THEN /\ pc' = [pc EXCEPT ![p] = "done"]
                     /\ result' = [result EXCEPT ![p] =
                                      Raised("InvalidPricingParametersError", msg)]
                     /\ trace' = [trace EXCEPT ![p] = <<"invalid">>]
                     /\ lookup_key' = [lookup_key EXCEPT ![p] = NoLookupKey]
                     /\ prior' = [prior EXCEPT ![p] = NoCall]
                ELSE /\ pc' = [pc EXCEPT ![p] = "tier1"]
                     /\ result' = [result EXCEPT ![p] = NoResult]
                     /\ trace' = [trace EXCEPT ![p] = <<>>]
                     /\ lookup_key' = [lookup_key EXCEPT ![p] = key]
                     /\ prior' = [prior EXCEPT ![p] = last[key]]
    /\ stripe_price' = [stripe_price EXCEPT ![p] = NoPrice]
    /\ new_price' = [new_price EXCEPT ![p] = NoPrice]
    /\ e' = [e EXCEPT ![p] = NoMessage]
    /\ UNCHANGED <<probe, WebVars>>
    /\ UNCHANGED <<settings, mirror, remote, last>>

\* (mutant) tier 1 without the except clause: the query's exception escapes
Tier1LocalCachePropagating(p) ==
    /\ pc[p] = "tier1"
    /\ \E raises \in BOOLEAN :
         LET rows == MirrorFilter(mirror, lookup_key[p])
         IN  IF raises
             THEN Finish(p, Raised("DatabaseError", "Price.objects.filter"), "t1_error")
             ELSE IF rows # <<>>
             THEN Finish(p, Returned(rows[1].id), "t1_hit")
             ELSE Continue(p, "tier2", "t1_miss")
    /\ UNCHANGED <<probe, WebVars>>
    /\ UNCHANGED <<settings, mirror, remote, nCalls, args, lookup_key,
                   stripe_price, new_price, e, prior>>

\* tier 1 (lines 116-138): the local djstripe cache; any exception of the query
\* is swallowed
Tier1LocalCache(p) ==
    /\ pc[p] = "tier1"
    /\ \E raises \in BOOLEAN :
         LET rows == MirrorFilter(mirror, lookup_key[p])
         IN  IF raises
             THEN Continue(p, "tier2", "t1_error")
             ELSE IF rows # <<>>
             THEN Finish(p, Returned(rows[1].id), "t1_hit")
             ELSE Continue(p, "tier2", "t1_miss")
    /\ UNCHANGED <<probe, WebVars>>
    /\ UNCHANGED <<settings, mirror, remote, nCalls, args, lookup_key,
                   stripe_price, new_price, e, prior>>

\* tier 2 (lines 140-152, 156-161): stripe.Price.list; a StripeError is swallowed
Tier2StripeList(p) ==
    /\ pc[p] = "tier2"
    /\ \E raises \in BOOLEAN :
         LET data == StripePriceList(remote, lookup_key[p])
         IN  IF raises
             THEN Continue(p, "tier3", "list_error") /\ UNCHANGED stripe_price
             ELSE IF data # <<>>
             THEN /\ Continue(p, "tier2_sync", "list_hit")
                  /\ stripe_price' = [stripe_price EXCEPT ![p] = data[1]]
             ELSE Continue(p, "tier3", "list_miss") /\ UNCHANGED stripe_price
    /\ UNCHANGED <<probe, WebVars>>
    /\ UNCHANGED <<settings, mirror, remote, nCalls, args, lookup_key, new_price, e,
                   prior>>

\* tier 2 (lines 153-161): the write-through sits inside the try that catches
\* StripeError only
Tier2Sync(p) ==
    /\ pc[p] = "tier2_sync"
    /\ \E outcome \in {"ok"} \cup SyncFailures :
         IF outcome = "ok"
         THEN /\ mirror' = sync_from_stripe_data(mirror, stripe_price[p])
              /\ Finish(p, Returned(stripe_price[p].id), "sync2_ok")
         ELSE IF outcome = "StripeError"
         THEN /\ Continue(p, "tier3", "sync2_stripe_error")
              /\ UNCHANGED mirror
         ELSE /\ Finish(p, Raised(outcome, "sync_from_stripe_data"), "sync2_error")
              /\ UNCHANGED mirror
    /\ UNCHANGED <<probe, WebVars>>
    /\ UNCHANGED <<settings, remote, nCalls, args, lookup_key, stripe_price,
                   new_price, e, prior>>

\* (mutant) tier 3 that tries stripe.Price.create a second time when it fails
Tier3CreateRetrying(p) ==
    /\ pc[p] = "tier3"
    /\ LET product_id == ProductIdSetting(settings)
       IN  IF Falsy(product_id)
           THEN /\ Finish(p, Raised("PricingError", NoProductMessage), "no_product")
                /\ UNCHANGED <<remote, new_price, e>>
           ELSE \E outcome \in {"ok"} \cup StripeErrorDetails :
                  /\ remote' = StripePriceCreate(
                                   remote, product_id[1], args[p], lookup_key[p])
                  /\ new_price' = [new_price EXCEPT ![p] =
                                      NewPrice(remote, product_id[1], args[p],
                                               lookup_key[p])]
                  /\ pc' = [pc EXCEPT ![p] = "tier3_sync"]
                  /\ trace' = [trace EXCEPT ![p] =
                                  IF outcome = "ok"
                                  THEN Append(@, "create_ok")
                                  ELSE @ \o <<"create_error", "create_ok">>]
                  /\ UNCHANGED <<e, result, last>>
    /\ UNCHANGED <<probe, WebVars>>
    /\ UNCHANGED <<settings, mirror, nCalls, args, lookup_key, stripe_price, prior>>

\* tier 3 (lines 163-199): the product check, then stripe.Price.create
Tier3Create(p) ==
    /\ pc[p] = "tier3"
    /\ LET product_id == ProductIdSetting(settings)
       IN  IF Falsy(product_id)
           THEN /\ Finish(p, Raised("PricingError", NoProductMessage), "no_product")
                /\ UNCHANGED <<remote, new_price, e>>
           ELSE \E outcome \in {"ok"} \cup StripeErrorDetails :
                  IF outcome = "ok"
                  THEN /\ remote' = StripePriceCreate(
                                        remote, product_id[1], args[p], lookup_key[p])
                       /\ new_price' = [new_price EXCEPT ![p] =
                                           NewPrice(remote, product_id[1], args[p],
                                                    lookup_key[p])]
                       /\ Continue(p, "tier3_sync", "create_ok")
                       /\ UNCHANGED e
                  ELSE /\ e' = [e EXCEPT ![p] = outcome]
                       /\ Finish(p, Raised("PricingError",
                                           "Failed to create price: " \o outcome),
                                 "create_error")
                       /\ UNCHANGED <<remote, new_price>>
    /\ UNCHANGED <<probe, WebVars>>
    /\ UNCHANGED <<settings, mirror, nCalls, args, lookup_key, stripe_price, prior>>

\* tier 3 (lines 213-216): the sync is outside every try
Tier3Sync(p) ==
    /\ pc[p] = "tier3_sync"
    /\ \E outcome \in {"ok"} \cup SyncFailures :
         IF outcome = "ok"
         THEN /\ mirror' = sync_from_stripe_data(mirror, new_price[p])
              /\ Finish(p, Returned(new_price[p].id), "sync3_ok")
         ELSE /\ Finish(p, Raised(outcome, "sync_from_stripe_data"), "sync3_error")
              /\ UNCHANGED mirror
    /\ UNCHANGED <<probe, WebVars>>
    /\ UNCHANGED <<settings, remote, nCalls, args, lookup_key, stripe_price,
                   new_price, e, prior>>

\* a deployment with another STRIPE_PRODUCT_ID: no call is running, the worker
\* processes start afresh, the Price table and the processor keep their prices
Reconfigure ==
    /\ \A p \in Callers : pc[p] \in {"idle", "done"}
    /\ \E p \in Callers : pc[p] = "done"
    /\ nCalls < MaxCalls
    /\ settings' \in SettingsChoices \ {settings}
    /\ pc' = [p \in Callers |-> "idle"]
    /\ args' = [p \in Callers |-> NoShape]
    /\ lookup_key' = [p \in Callers |-> NoLookupKey]
    /\ stripe_price' = [p \in Callers |-> NoPrice]
    /\ new_price' = [p \in Callers |-> NoPrice]
    /\ e' = [p \in Callers |-> NoMessage]
    /\ result' = [p \in Callers |-> NoResult]
    /\ trace' = [p \in Callers |-> <<>>]
    /\ prior' = [p \in Callers |-> NoCall]
    /\ UNCHANGED <<probe, WebVars>>
    /\ UNCHANGED <<mirror, remote, nCalls, last>>

Next ==
    \/ \E p \in Callers : Call(p)
    \/ \E p \in Callers : Tier1LocalCache(p)
    \/ \E p \in Callers : Tier2StripeList(p)
    \/ \E p \in Callers : Tier2Sync(p)
    \/ \E p \in Callers : Tier3Create(p)
    \/ \E p \in Callers : Tier3Sync(p)
    \/ Reconfigure

Spec == Init /\ [][Next]_vars

\* ------------------------------------------- the functions called directly
\* the validation settings: the defaults, and a deployment with its own bounds
ValidationSettings ==
    { <<>>,
      [STRIPE_MIN_AMOUNT_CENTS |-> 100, STRIPE_MAX_AMOUNT_CENTS |-> 5000,
       STRIPE_ALLOWED_INTERVALS |-> <<"month", "year">>,
       STRIPE_MAX_INTERVAL_COUNT |-> 12] }

Near(n) == (n - Margin)..(n + Margin)

\* the arguments the functions are called with: the values of the test suite,
\* and those around each bound of each configuration
AmountProbes ==
    {0, 1, 100, 150, 199, 500, 1000, 1550, 10000}
        \cup UNION { Near(Getattr(s, "STRIPE_MIN_AMOUNT_CENTS", STRIPE_MIN_AMOUNT_CENTS))
                       \cup Near(Getattr(s, "STRIPE_MAX_AMOUNT_CENTS", STRIPE_MAX_AMOUNT_CENTS))
                     : s \in ValidationSettings }
IntervalProbes == {"day", "week", "month", "year", "biweekly", "Month", ""}
CountProbes ==
    {7} \cup Near(1)
        \cup UNION { Near(Getattr(s, "STRIPE_MAX_INTERVAL_COUNT", STRIPE_MAX_INTERVAL_COUNT))
                     : s \in ValidationSettings }

\* the cards the display properties are read of
CardProbes ==
    [subscription_status : {None, Some("active"), Some("canceled")},
     subscription_id : {None, Some("sub_123")},
     subscription_amount_cents : {None, Some(0), Some(199), Some(500), Some(1000)},
     subscription_interval : {None, Some(""), Some("day"), Some("month"),
                              Some("fortnight")},
     subscription_interval_count : {None, Some(0), Some(1), Some(3)}]

PureInit ==
    /\ settings \in ValidationSettings
    /\ mirror = <<>>
    /\ remote = <<>>
    /\ nCalls = 0
    /\ pc = [p \in Callers |-> "idle"]
    /\ args = [p \in Callers |-> NoShape]
    /\ lookup_key = [p \in Callers |-> NoLookupKey]
    /\ stripe_price = [p \in Callers |-> NoPrice]
    /\ new_price = [p \in Callers |-> NoPrice]
    /\ e = [p \in Callers |-> NoMessage]
    /\ result = [p \in Callers |-> NoResult]
    /\ trace = [p \in Callers |-> <<>>]
    /\ prior = [p \in Callers |-> NoCall]
    /\ last = [k \in ValidKeys |-> NoCall]
    /\ probe = NoProbe
    /\ WebInit

\* one function is called at a time; none of them touches the service's state
ServiceVars ==
    <<settings, mirror, remote, nCalls, pc, args, lookup_key, stripe_price,
      new_price, e, result, trace, prior, last, WebVars>>

CallValidate ==
    /\ probe = NoProbe
    /\ \E a \in AmountProbes, i \in IntervalProbes, c \in CountProbes :
         probe' = [fn |-> "validate_pricing_parameters", args |-> Shape(a, i, c),
                   out |-> validate_pricing_parameters(a, i, c)]
    /\ UNCHANGED ServiceVars

CallGenerateLookupKey ==
    /\ probe = NoProbe
    /\ \E a \in AmountProbes, i \in IntervalProbes, c \in CountProbes :
         probe' = [fn |-> "generate_lookup_key", args |-> Shape(a, i, c),
                   out |-> generate_lookup_key(a, i, c)]
    /\ UNCHANGED ServiceVars

CallFormatPriceDisplay ==
    /\ probe = NoProbe
    /\ \E a \in AmountProbes :
         probe' = [fn |-> "format_price_display", args |-> Shape(a, "", 0),
                   out |-> format_price_display(a)]
    /\ UNCHANGED ServiceVars

CallFormatFrequencyDisplay ==
    /\ probe = NoProbe
    /\ \E i \in IntervalProbes, c \in CountProbes :
         probe' = [fn |-> "format_frequency_display", args |-> Shape(0, i, c),
                   out |-> format_frequency_display(i, c)]
    /\ UNCHANGED ServiceVars

ReadHasSubscription ==
    /\ probe = NoProbe
    /\ \E card \in CardProbes :
         probe' = [fn |-> "has_subscription", args |-> card,
                   out |-> has_subscription(card)]
    /\ UNCHANGED ServiceVars

ReadIsActive ==
    /\ probe = NoProbe
    /\ \E card \in CardProbes :
         probe' = [fn |-> "is_active", args |-> card, out |-> is_active(card)]
    /\ UNCHANGED ServiceVars

ReadSubscriptionPriceDisplay ==
    /\ probe = NoProbe
    /\ \E card \in CardProbes :
         probe' = [fn |-> "subscription_price_display", args |-> card,
                   out |-> subscription_price_display(card)]
    /\ UNCHANGED ServiceVars

\* the caller is done with the result; the next call follows
Discard ==
    /\ probe # NoProbe
    /\ probe' = NoProbe
    /\ UNCHANGED ServiceVars

PureNext ==
    \/ CallValidate
    \/ CallGenerateLookupKey
    \/ CallFormatPriceDisplay
    \/ CallFormatFrequencyDisplay
    \/ ReadHasSubscription
    \/ ReadIsActive
    \/ ReadSubscriptionPriceDisplay
    \/ Discard

PureSpec == PureInit /\ [][PureNext]_vars

\* ------------------------------------------------ create_subscription_view
\* the worker processes serving the view: one, its requests one after another
ViewWorkers == {1}

\* the pricing fields of a JSON body: none (the defaults of lines 206-208
\* apply), or one that int() rejects
BasicFields ==
    { <<Absent, None, Absent>>, <<Junk, Some("year"), Number(1)>>,
      <<Number(100), Some("year"), Junk>> }

\* the pricing fields of each input shape
ShapeFields ==
    { <<Number(shape.amount_cents), Some(shape.interval), Number(shape.interval_count)>>
        : shape \in InputShapes }

\* the requests: every user with a body that is not JSON, with one lacking
\* payment_method_id, and with each payment method and the basic fields; the
\* owner of a payment method also with every input shape
Requests ==
    { Request(user, FALSE, None, Absent, None, Absent) : user \in Users }
      \cup { Request(user, TRUE, None, Absent, None, Absent) : user \in Users }
      \cup { Request(user, TRUE, Some(pm), f[1], f[2], f[3])
               : user \in Users, pm \in DOMAIN PaymentMethodsAtStart,
                 f \in BasicFields }
      \cup { Request("alice", TRUE, Some("pm_alice"), f[1], f[2], f[3])
               : f \in ShapeFields }

\* one call of the processor's payment-method or subscription API
ProcessorCall(op, payment_method, customer, price) ==
    [op |-> op, payment_method |-> payment_method, customer |-> customer,
     price |-> price]

\* (mutant) no detach
cleanup_payment_method_skipping(w, payment_method_id, detached) == w

\* lines 162-187: _cleanup_payment_method; w holds the request's calls so far
\* and the processor's payment methods; a StripeError of detach is swallowed
cleanup_payment_method(w, payment_method_id, detached) ==
    [calls |-> Append(w.calls, ProcessorCall("PaymentMethod.detach",
                                             payment_method_id, "", "")),
     payment_methods |->
        IF detached
        THEN [w.payment_methods EXCEPT ![payment_method_id] = NoCustomer]
        ELSE w.payment_methods]

\* (mutant) every user passes for authenticated
is_authenticated_always(user) == TRUE

\* line 193: request.user.is_authenticated
is_authenticated(user) == user # Anonymous

Outcome(response, calls, cleanup, shape) ==
    [response |-> response, calls |-> calls, cleanup |-> cleanup, shape |-> shape]

\* lines 193-247: the view up to the call of get_or_create_price: the response
\* if it ends here, the processor calls made, whether _cleanup_payment_method
\* runs, and the shape to resolve
ViewPrologue(request, pms, retrieve_raises) ==
    LET pm == Value(request.payment_method_id)
        retrieve == ProcessorCall("PaymentMethod.retrieve", pm, pms[pm], "")
        amount_cents == IF request.amount_cents = Absent THEN 100
                        ELSE request.amount_cents.n
        interval == IF request.interval = None THEN "year"
                    ELSE Value(request.interval)
        interval_count == IF request.interval_count = Absent THEN 1
                          ELSE request.interval_count.n
    IN  IF ~is_authenticated(request.user)
        THEN Outcome(JsonResponse(401, "Authentication required"), <<>>, FALSE, NoShape)
        ELSE IF ~request.valid_json
        THEN Outcome(JsonResponse(400, "Invalid JSON"), <<>>, FALSE, NoShape)
        ELSE IF NotStr(request.payment_method_id)
        THEN Outcome(JsonResponse(400, "payment_method_id is required"), <<>>,
                     FALSE, NoShape)
        ELSE IF request.amount_cents = Junk \/ request.interval_count = Junk
        THEN Outcome(JsonResponse(400, "amount_cents and interval_count must be integers"),
                     <<>>, TRUE, NoShape)
        ELSE IF request.user \notin DOMAIN Customers
        THEN Outcome(JsonResponse(404, "Customer account not found"), <<>>, TRUE,
                     NoShape)
        ELSE IF retrieve_raises
        THEN Outcome(JsonResponse(500, "Failed to create subscription: api_connection_error"),
                     <<retrieve>>, TRUE, NoShape)
        ELSE IF pms[pm] # Customers[request.user]
        THEN Outcome(JsonResponse(403, "Invalid payment method"), <<retrieve>>,
                     TRUE, NoShape)
        ELSE Outcome(NoResponse, <<retrieve>>, FALSE,
                     Shape(amount_cents, interval, interval_count))

\* a request arrives and is served up to line 247
ViewStart(p) ==
    /\ view[p].pc = "idle"
    /\ nCalls < MaxCalls
    /\ \E request \in Requests :
       \E retrieve_raises \in
              IF ViewPrologue(request, payment_methods, FALSE).calls = <<>>
              THEN {FALSE} ELSE BOOLEAN :
       \E detached \in
              IF ViewPrologue(request, payment_methods, retrieve_raises).cleanup
              THEN BOOLEAN ELSE {FALSE} :
         LET o == ViewPrologue(request, payment_methods, retrieve_raises)
             w0 == [calls |-> o.calls, payment_methods |-> payment_methods]
             w == IF o.cleanup
                  THEN cleanup_payment_method(w0, Value(request.payment_method_id),
                                              detached)
                  ELSE w0
         IN  /\ view' = [view EXCEPT ![p] =
                            [pc |-> IF o.response = NoResponse THEN "pricing"
                                    ELSE "responded",
                             request |-> request, shape |-> o.shape,
                             response |-> o.response, calls |-> w.calls]]
             /\ payment_methods' = w.payment_methods
    /\ UNCHANGED <<settings, mirror, remote, nCalls, pc, args, lookup_key,
                   stripe_price, new_price, e, result, trace, prior, last, probe,
                   subscriptions, middleware, context_vars>>

\* lines 250-255: the view calls get_or_create_price with the request's shape
ViewGetOrCreatePrice(p) ==
    /\ view[p].pc = "pricing"
    /\ pc[p] = "idle"
    /\ Call(p)
    /\ args'[p] = view[p].shape

\* (mutant) a validation failure answered as a server fault
PricingFailureResponseAll500(res) ==
    IF res.kind \in {"InvalidPricingParametersError", "PricingError"}
    THEN JsonResponse(500, "Failed to configure pricing: " \o res.value)
    ELSE IF res.kind = "StripeError"
    THEN JsonResponse(500, "Failed to create subscription: " \o res.value)
    ELSE JsonResponse(500, "An unexpected error occurred")

\* lines 256-283 and 322-342: the response to an exception of get_or_create_price
PricingFailureResponse(res) ==
    IF res.kind = "InvalidPricingParametersError"
    THEN JsonResponse(400, res.value)
    ELSE IF res.kind = "PricingError"
    THEN JsonResponse(500, "Failed to configure pricing: " \o res.value)
    ELSE IF res.kind = "StripeError"
    THEN JsonResponse(500, "Failed to create subscription: " \o res.value)
    ELSE JsonResponse(500, "An unexpected error occurred")

\* (mutant) the subscription created without the resolved price
SubscriptionCreateDefaultPrice(customer, price_id, payment_method_id) ==
    ProcessorCall("Subscription.create", payment_method_id, customer, "")

\* lines 286-298: stripe.Subscription.create(customer, items, default_payment_method)
SubscriptionCreate(customer, price_id, payment_method_id) ==
    ProcessorCall("Subscription.create", payment_method_id, customer, price_id)

\* lines 256-342: get_or_create_price has returned or raised; the view creates
\* the subscription, or cleans up, and responds
ViewRespond(p) ==
    /\ view[p].pc = "pricing"
    /\ pc[p] = "done"
    /\ \E create_raises \in IF result[p].kind = "price_id" THEN BOOLEAN ELSE {FALSE} :
       \E detached \in IF result[p].kind = "price_id" /\ ~create_raises
                        THEN {FALSE} ELSE BOOLEAN :
         LET pm == Value(view[p].request.payment_method_id)
             customer == Customers[view[p].request.user]
             w0 == [calls |-> view[p].calls, payment_methods |-> payment_methods]
             create == SubscriptionCreate(customer, result[p].value, pm)
             w1 == [w0 EXCEPT !.calls = Append(@, create)]
         IN  IF result[p].kind = "price_id"
             THEN IF create_raises
                  THEN LET w == cleanup_payment_method(w1, pm, detached)
                       IN  /\ view' = [view EXCEPT ![p].pc = "responded",
                                  ![p].calls = w.calls,
                                  ![p].response = JsonResponse(500,
                                      "Failed to create subscription: card_error")]
                           /\ payment_methods' = w.payment_methods
                           /\ UNCHANGED subscriptions
                  ELSE /\ view' = [view EXCEPT ![p].pc = "responded",
                              ![p].calls = w1.calls,
                              ![p].response = JsonResponse(200, "")]
                       /\ subscriptions' = Append(subscriptions, create)
                       /\ UNCHANGED payment_methods
             ELSE LET w == cleanup_payment_method(w0, pm, detached)
                  IN  /\ view' = [view EXCEPT ![p].pc = "responded",
                             ![p].calls = w.calls,
                             ![p].response = PricingFailureResponse(result[p])]
                      /\ payment_methods' = w.payment_methods
                      /\ UNCHANGED subscriptions
    /\ UNCHANGED <<settings, mirror, remote, nCalls, pc, args, lookup_key,
                   stripe_price, new_price, e, result, trace, prior, last, probe,
                   middleware, context_vars>>

\* the response is sent: the request and the frames of its calls are gone, the
\* worker is free for the next request
ViewReturn(p) ==
    /\ view[p].pc = "responded"
    /\ view' = [view EXCEPT ![p] = IdleView]
    /\ pc' = [pc EXCEPT ![p] = "idle"]
    /\ args' = [args EXCEPT ![p] = NoShape]
    /\ lookup_key' = [lookup_key EXCEPT ![p] = NoLookupKey]
    /\ stripe_price' = [stripe_price EXCEPT ![p] = NoPrice]
    /\ new_price' = [new_price EXCEPT ![p] = NoPrice]
    /\ e' = [e EXCEPT ![p] = NoMessage]
    /\ result' = [result EXCEPT ![p] = NoResult]
    /\ trace' = [trace EXCEPT ![p] = <<>>]
    /\ prior' = [prior EXCEPT ![p] = NoCall]
    /\ UNCHANGED <<settings, mirror, remote, nCalls, last, probe, payment_methods,
                   subscriptions, middleware, context_vars>>

ViewNext ==
    \/ \E p \in ViewWorkers : ViewStart(p)
    \/ \E p \in ViewWorkers : ViewGetOrCreatePrice(p)
    \/ \E p \in ViewWorkers : Tier1LocalCache(p)
    \/ \E p \in ViewWorkers : Tier2StripeList(p)
    \/ \E p \in ViewWorkers : Tier2Sync(p)
    \/ \E p \in ViewWorkers : Tier3Create(p)
    \/ \E p \in ViewWorkers : Tier3Sync(p)
    \/ \E p \in ViewWorkers : ViewRespond(p)
    \/ \E p \in ViewWorkers : ViewReturn(p)

ViewSpec == Init /\ [][ViewNext]_vars

\* ------------------------------------ config/logging.py: the request context
\* the requests the middleware sees: anonymous or not, with or without a
\* session, behind a proxy or not
MiddlewareRequests ==
    [user : {Anonymous, "alice"},
     session_key : {None, Some("k3y5e55i0nabcdef")},
     path : {"/", "/cards/"},
     method : {"GET", "POST"},
     x_forwarded_for : {None, Some(" 203.0.113.7, 10.0.0.1")},
     REMOTE_ADDR : {"127.0.0.1"}]

\* str(uuid.uuid4())
RequestIds == {"0b5e-uuid", "9f1c-uuid"}
\* request.user.id and request.user.email
UserId == [alice |-> 1]
UserEmail == [alice |-> "alice@example.com"]
\* the key request.session.create() makes
CreatedSessionKey == "n3w5e55i0nkey012"

\* str.split(",")[0]
RECURSIVE BeforeComma(_)
BeforeComma(str) ==
    IF str = "" \/ SubSeq(str, 1, 1) = "," THEN ""
    ELSE SubSeq(str, 1, 1) \o BeforeComma(SubSeq(str, 2, Len(str)))

\* str.strip()
RECURSIVE Strip(_)
Strip(str) ==
    IF str = "" THEN ""
    ELSE IF SubSeq(str, 1, 1) = " " THEN Strip(SubSeq(str, 2, Len(str)))
    ELSE IF SubSeq(str, Len(str), Len(str)) = " "
    THEN Strip(SubSeq(str, 1, Len(str) - 1))
    ELSE str

\* session_key[:8]
First8(str) == IF Len(str) <= 8 THEN str ELSE SubSeq(str, 1, 8)

\* lines 64-95: the context a request is given
RequestContext(request, req_id, session_key) ==
    [request_id |-> Some(req_id),
     session_id |-> Some(First8(session_key)),
     user_id |-> IF request.user # Anonymous THEN Some(UserId[request.user])
                 ELSE None,
     user_email |-> IF request.user # Anonymous THEN Some(UserEmail[request.user])
                    ELSE None,
     request_path |-> Some(request.path),
     request_method |-> Some(request.method),
     ip_address |-> IF request.x_forwarded_for # None
                    THEN Some(Strip(BeforeComma(Value(request.x_forwarded_for))))
                    ELSE Some(request.REMOTE_ADDR)]

\* lines 62-97: __call__ up to the call of get_response; request.session.create()
\* (line 73) makes a session or raises, and then __call__ ends with only
\* request_id set
MiddlewareCall ==
    /\ middleware = "idle"
    /\ \E request \in MiddlewareRequests, req_id \in RequestIds :
       \E created \in IF request.session_key = None THEN BOOLEAN ELSE {TRUE} :
         IF created
         THEN /\ context_vars' =
                   RequestContext(request, req_id,
                                  IF request.session_key = None
                                  THEN CreatedSessionKey
                                  ELSE Value(request.session_key))
              /\ middleware' = "get_response"
         ELSE /\ context_vars' = [context_vars EXCEPT !.request_id = Some(req_id)]
              /\ middleware' = "idle"
    /\ UNCHANGED <<settings, mirror, remote, nCalls, pc, args, lookup_key,
                   stripe_price, new_price, e, result, trace, prior, last, probe,
                   view, payment_methods, subscriptions>>

\* lines 97-108: get_response returns and the context is cleared, or it raises
\* and __call__ ends there
MiddlewareGetResponse ==
    /\ middleware = "get_response"
    /\ \E raises \in BOOLEAN :
         IF raises
         THEN UNCHANGED context_vars
         ELSE context_vars' = NoContext
    /\ middleware' = "idle"
    /\ UNCHANGED <<settings, mirror, remote, nCalls, pc, args, lookup_key,
                   stripe_price, new_price, e, result, trace, prior, last, probe,
                   view, payment_methods, subscriptions>>

MiddlewareNext ==
    \/ MiddlewareCall
    \/ MiddlewareGetResponse

MiddlewareSpec == Init /\ [][MiddlewareNext]_vars

\* ------------------------------------------------------------ vocabulary
Done(p) == pc[p] = "done"
IsPriceId(res) == res.kind = "price_id"
Has(t, name) == \E i \in DOMAIN t : t[i] = name
Count(t, names) == Cardinality({i \in DOMAIN t : t[i] \in names})

Tier1Steps == {"t1_hit", "t1_miss", "t1_error"}
ListSteps == {"list_hit", "list_miss", "list_error"}
Tier3Steps == {"no_product", "create_ok", "create_error"}
CreateSteps == {"create_ok", "create_error"}
MirrorWrites == {"sync2_ok", "sync3_ok"}

\* the traces of a call during which no collaborator fails
NoFaultTraces ==
    { <<"t1_hit">>,
      <<"t1_miss", "list_hit", "sync2_ok">>,
      <<"t1_miss", "list_miss", "create_ok", "sync3_ok">> }

\* the lookup key a price at the processor was created for
CreatedFor(price) ==
    generate_lookup_key(price.unit_amount, price.interval, price.interval_count)

\* ------------------------------------------------------------------ claims

\* C1: two successive get_or_create_price calls with the same shape return the
\* same price id, and the second one is answered by tier 1 or tier 2 without
\* another stripe.Price.create. (Stated for a call that returns an id and that
\* began after a call for the same lookup key had returned one.)
C1_IdempotentResolution ==
    \A p \in Callers :
        (Done(p) /\ IsPriceId(result[p]) /\ IsPriceId(prior[p].result)) =>
            /\ result[p] = prior[p].result
            /\ trace[p][Len(trace[p])] \in {"t1_hit", "sync2_ok"}
            /\ Count(trace[p], CreateSteps) = 0

\* C2: the processor has performed at most one successful create_price for any
\* lookup key, whatever calls were made and whichever lookups failed.
C2_CreatedOncePerShape ==
    \A k \in ValidKeys :
        Cardinality({i \in DOMAIN remote : CreatedFor(remote[i]) = k}) <= 1

\* C3: two callers that resolve the same shape at the same time (each began
\* before the other had finished, no call for the key had completed before, no
\* collaborator failed) return the same price id.
C3_ConcurrentCallersConverge ==
    \A p, q \in Callers :
        ( /\ Done(p) /\ Done(q)
          /\ lookup_key[p] # NoLookupKey
          /\ lookup_key[p] = lookup_key[q]
          /\ prior[p] = NoCall /\ prior[q] = NoCall
          /\ trace[p] \in NoFaultTraces /\ trace[q] \in NoFaultTraces )
        => result[p] = result[q]

\* C4: within one call the tiers run in the order local cache, remote lookup,
\* creation, each only when every earlier tier found nothing: a cache hit ends
\* the call with that id and without list or create, and a remote match means no
\* create.
C4_StrictTierOrder ==
    \A p \in Callers :
        LET t == trace[p]
        IN  /\ \A i \in DOMAIN t :
                  t[i] \in ListSteps => i = 2 /\ t[1] \in {"t1_miss", "t1_error"}
            /\ \A i \in DOMAIN t :
                  t[i] \in Tier3Steps =>
                      \E j \in 1..(i - 1) : t[j] \in {"list_miss", "list_error"}
            /\ Has(t, "t1_hit") =>
                  /\ t = <<"t1_hit">>
                  /\ Done(p) /\ IsPriceId(result[p])
                  /\ \E i \in DOMAIN mirror :
                        /\ mirror[i].id = result[p].value
                        /\ mirror[i].lookup_key = lookup_key[p]
            /\ Has(t, "list_hit") => Count(t, CreateSteps) = 0

\* C5: a failure of the tier-1 query of the local cache, of whatever kind, does
\* not end the call: nothing is raised at that step and the next step of the
\* call is the tier-2 stripe.Price.list.
C5_Tier1FailureSwallowed ==
    \A p \in Callers :
        LET t == trace[p]
        IN  (t # <<>> /\ t[1] = "t1_error") =>
                IF Len(t) = 1
                THEN pc[p] = "tier2" /\ result[p] = NoResult
                ELSE t[2] \in ListSteps

C5_Witness ==
    \E p \in Callers :
        /\ Len(trace[p]) >= 2
        /\ trace[p][1] = "t1_error"
        /\ MirrorFilter(mirror, lookup_key[p]) # <<>>

\* C6: a StripeError of the tier-2 stripe.Price.list does not end the call: the
\* call goes on with tier 3, and so it ends with a price id whenever a product
\* is configured and stripe.Price.create succeeds.
C6_ListErrorFallsThrough ==
    \A p \in Callers :
        LET t == trace[p]
        IN  (Len(t) >= 2 /\ t[2] = "list_error") =>
                /\ IF Len(t) = 2
                   THEN pc[p] = "tier3" /\ result[p] = NoResult
                   ELSE t[3] \in Tier3Steps
                /\ (Done(p) /\ Has(t, "create_ok")) => IsPriceId(result[p])

\* C7: the write into the local mirror is fire-and-forget: a call that found a
\* price by the remote lookup returns that price's id, and a call that created
\* a price returns the new id, whether or not sync_from_stripe_data fails.
C7_MirrorSyncFireAndForget ==
    \A p \in Callers :
        Done(p) =>
            /\ Has(trace[p], "list_hit") =>
                   result[p] = Returned(stripe_price[p].id)
            /\ Has(trace[p], "create_ok") =>
                   result[p] = Returned(new_price[p].id)

\* C8: when the tier-1 query raises and the tier-2 lookup finds a match, the
\* call returns the id of that remote price and the mirror holds it afterwards;
\* the next call for the shape, its tier-1 query not raising, is answered by
\* tier 1 with the same id.
C8_FallbackCorrectness ==
    \A p \in Callers :
        LET t == trace[p]
        IN  /\ (Done(p) /\ Len(t) >= 2 /\ t[1] = "t1_error" /\ t[2] = "list_hit") =>
                  /\ result[p] = Returned(stripe_price[p].id)
                  /\ \E i \in DOMAIN mirror :
                        /\ mirror[i].id = stripe_price[p].id
                        /\ mirror[i].lookup_key = lookup_key[p]
            /\ ( /\ Done(p)
                 /\ prior[p].first = "t1_error" /\ prior[p].final = "sync2_ok"
                 /\ t[1] # "t1_error" ) =>
                  /\ t = <<"t1_hit">>
                  /\ result[p] = prior[p].result

\* no product identifier is configured: the setting is absent or empty
NoProductConfigured ==
    \/ "STRIPE_PRODUCT_ID" \notin DOMAIN settings
    \/ settings.STRIPE_PRODUCT_ID = ""

\* C9 (as claimed): with no product id configured (absent or empty), a call for
\* a valid shape fails with the product-not-configured PricingError, whatever
\* the mirror and the processor hold.
C9_CreationGating ==
    \A p \in Callers :
        (Done(p) /\ args[p] \in ValidShapes /\ NoProductConfigured) =>
            result[p] = Raised("PricingError", NoProductMessage)

\* the call got past tiers 1 and 2: the cache query missed or raised, and the
\* remote lookup missed, raised, or its write-through raised a StripeError
ReachesTier3(t) ==
    /\ Len(t) >= 2
    /\ t[1] \in {"t1_miss", "t1_error"}
    /\ \/ t[2] \in {"list_miss", "list_error"}
       \/ t[2] = "list_hit" /\ Len(t) >= 3 /\ t[3] = "sync2_stripe_error"

\* C9 (amended): with no product id configured (absent or empty), a call for a
\* valid shape that reaches tier 3 fails with the product-not-configured
\* PricingError and never calls stripe.Price.create; a call answered by tier 1
\* or tier 2 does not fail with that error.
C9_CreationGatingAtTier3 ==
    \A p \in Callers :
        (/\ Done(p)
         /\ NoProductConfigured
         /\ args[p] \in InputShapes
         /\ validate_pricing_parameters(args[p].amount_cents, args[p].interval,
                                        args[p].interval_count) = NoMessage) =>
            /\ Count(trace[p], CreateSteps) = 0
            /\ IF ReachesTier3(trace[p])
               THEN result[p] = Raised("PricingError", NoProductMessage)
               ELSE result[p] # Raised("PricingError", NoProductMessage)

C9_Witness ==
    \E p \in Callers :
        /\ Done(p)
        /\ NoProductConfigured
        /\ result[p] = Raised("PricingError", NoProductMessage)
        /\ MirrorFilter(mirror, lookup_key[p]) # <<>>
        /\ StripePriceList(remote, lookup_key[p]) # <<>>

\* C10: when the processor rejects stripe.Price.create, the call ends at once
\* with a PricingError whose message carries the StripeError's text; that call
\* has called create once and has written nothing to the local mirror.
C10_CreateFailure ==
    \A p \in Callers :
        Has(trace[p], "create_error") =>
            /\ Done(p)
            /\ e[p] \in StripeErrorDetails
            /\ result[p] = Raised("PricingError", "Failed to create price: " \o e[p])
            /\ Count(trace[p], CreateSteps) = 1
            /\ Count(trace[p], MirrorWrites) = 0

C10_Witness ==
    \E p \in Callers :
        /\ Has(trace[p], "create_error")
        /\ Has(trace[p], "sync2_stripe_error")
        /\ e[p] = "rate_limit_error"

\* a shape within the configured amount bounds, interval list and count bounds
WithinBounds(shape) ==
    /\ shape.amount_cents >= Getattr(settings, "STRIPE_MIN_AMOUNT_CENTS", 50)
    /\ shape.amount_cents <= Getattr(settings, "STRIPE_MAX_AMOUNT_CENTS", 100000)
    /\ \E n \in DOMAIN Getattr(settings, "STRIPE_ALLOWED_INTERVALS",
                               <<"day", "week", "month", "year">>) :
           Getattr(settings, "STRIPE_ALLOWED_INTERVALS",
                   <<"day", "week", "month", "year">>)[n] = shape.interval
    /\ shape.interval_count >= 1
    /\ shape.interval_count <= Getattr(settings, "STRIPE_MAX_INTERVAL_COUNT", 36)

\* C11: a call made with a shape that fails validation has ended with an
\* InvalidPricingParametersError and has taken no other step: no query of the
\* local mirror, no stripe.Price.list, no stripe.Price.create, no mirror write.
C11_ValidationPrecedesEffects ==
    \A p \in Callers :
        (args[p] # NoShape /\ ~WithinBounds(args[p])) =>
            /\ Done(p)
            /\ result[p].kind = "InvalidPricingParametersError"
            /\ trace[p] = <<"invalid">>
            /\ Count(trace[p], Tier1Steps \cup ListSteps \cup CreateSteps
                                 \cup MirrorWrites) = 0

C11_Witness ==
    \E p \in Callers :
        /\ Done(p)
        /\ args[p] # NoShape
        /\ ~WithinBounds(args[p])
        /\ mirror # <<>>
        /\ remote # <<>>

\* C12: a finished call has returned a price id or raised one of the service's
\* own errors (InvalidPricingParametersError, or PricingError for a missing
\* product and for a failed creation); no other exception escapes.
C12_OutcomeClosure ==
    \A p \in Callers :
        Done(p) =>
            result[p].kind \in {"price_id", "InvalidPricingParametersError",
                                "PricingError"}

\* ------------------------------------------- vocabulary of the functions
Called(fn) == probe.fn = fn

\* the configuration bounds in force
MinAmountCents == Getattr(settings, "STRIPE_MIN_AMOUNT_CENTS", 50)
MaxAmountCents == Getattr(settings, "STRIPE_MAX_AMOUNT_CENTS", 100000)
MaxIntervalCount == Getattr(settings, "STRIPE_MAX_INTERVAL_COUNT", 36)
AllowedIntervals ==
    LET list == Getattr(settings, "STRIPE_ALLOWED_INTERVALS",
                        <<"day", "week", "month", "year">>)
    IN  {list[n] : n \in DOMAIN list}

AmountInRange(a) == MinAmountCents <= a /\ a <= MaxAmountCents
CountInRange(c) == 1 <= c /\ c <= MaxIntervalCount

StartsWith(str, prefix) ==
    Len(str) >= Len(prefix) /\ SubSeq(str, 1, Len(prefix)) = prefix
Contains(str, sub) ==
    \E n \in 1..(Len(str) - Len(sub) + 1) : SubSeq(str, n, n + Len(sub) - 1) = sub

\* C13: with an allowed interval and an interval_count within 1..max, validation
\* accepts the amount exactly when min <= amount_cents <= max for the
\* configured bounds (defaults 50 and 100000): min and max pass, min - 1 and
\* max + 1 fail.
C13_AmountBoundaries ==
    LET shape == probe.args
    IN  (/\ Called("validate_pricing_parameters")
         /\ shape.interval \in AllowedIntervals
         /\ CountInRange(shape.interval_count))
        => /\ (probe.out = NoMessage) <=> AmountInRange(shape.amount_cents)
           /\ shape.amount_cents \in {MinAmountCents, MaxAmountCents}
                 => probe.out = NoMessage
           /\ shape.amount_cents \in {MinAmountCents - 1, MaxAmountCents + 1}
                 => probe.out # NoMessage

C13_Witness ==
    /\ Called("validate_pricing_parameters")
    /\ "STRIPE_MAX_AMOUNT_CENTS" \in DOMAIN settings
    /\ probe.args = Shape(MaxAmountCents + 1, "month", 1)
    /\ probe.out # NoMessage

\* C14: with an amount in range and an allowed interval, validation accepts
\* the count exactly when 1 <= interval_count <= max (default 36); a count of
\* 0 or less fails with a message containing "at least 1", a count above the
\* maximum with a message naming the maximum.
C14_IntervalCountBoundaries ==
    LET shape == probe.args
    IN  (/\ Called("validate_pricing_parameters")
         /\ AmountInRange(shape.amount_cents)
         /\ shape.interval \in AllowedIntervals)
        => /\ (probe.out = NoMessage) <=> CountInRange(shape.interval_count)
           /\ shape.interval_count <= 0 => Contains(probe.out, "at least 1")
           /\ shape.interval_count > MaxIntervalCount
                 => Contains(probe.out, ToString(MaxIntervalCount))

C14_Witness ==
    /\ Called("validate_pricing_parameters")
    /\ settings = <<>>
    /\ probe.args = Shape(100, "year", 36)
    /\ probe.out = NoMessage

\* C15: for an amount in range, validation fails with a message containing
\* "Invalid interval" for every interval outside the configured allow-list,
\* and never with that message for an interval in the list.
C15_UnknownIntervalRejected ==
    LET shape == probe.args
    IN  (Called("validate_pricing_parameters") /\ AmountInRange(shape.amount_cents))
        => (shape.interval \notin AllowedIntervals
               <=> Contains(probe.out, "Invalid interval"))

C15_Witness ==
    /\ Called("validate_pricing_parameters")
    /\ "STRIPE_ALLOWED_INTERVALS" \in DOMAIN settings
    /\ probe.args.interval = "week"
    /\ CountInRange(probe.args.interval_count)
    /\ Contains(probe.out, "Invalid interval")

\* which check a validation message comes from
ErrorKind(msg) ==
    IF msg = NoMessage THEN "ok"
    ELSE IF StartsWith(msg, "Amount must be at least") THEN "amount-too-low"
    ELSE IF StartsWith(msg, "Amount cannot exceed") THEN "amount-too-high"
    ELSE IF StartsWith(msg, "Invalid interval") THEN "invalid-interval"
    ELSE IF StartsWith(msg, "Interval count must be at least")
    THEN "interval-count-too-low"
    ELSE IF StartsWith(msg, "Interval count cannot exceed")
    THEN "interval-count-too-high"
    ELSE "other"

\* C16: validation reports one error, that of the first failing check in the
\* order amount too low, amount too high, invalid interval, interval count too
\* low, interval count too high.
C16_ValidationOrder ==
    LET shape == probe.args
    IN  Called("validate_pricing_parameters") =>
            ErrorKind(probe.out) =
                CASE shape.amount_cents < MinAmountCents -> "amount-too-low"
                  [] shape.amount_cents >= MinAmountCents
                        /\ shape.amount_cents > MaxAmountCents -> "amount-too-high"
                  [] AmountInRange(shape.amount_cents)
                        /\ shape.interval \notin AllowedIntervals -> "invalid-interval"
                  [] AmountInRange(shape.amount_cents)
                        /\ shape.interval \in AllowedIntervals
                        /\ shape.interval_count < 1 -> "interval-count-too-low"
                  [] AmountInRange(shape.amount_cents)
                        /\ shape.interval \in AllowedIntervals
                        /\ shape.interval_count >= 1
                        /\ shape.interval_count > MaxIntervalCount
                        -> "interval-count-too-high"
                  [] OTHER -> "ok"

C16_Witness ==
    /\ Called("validate_pricing_parameters")
    /\ probe.args = Shape(MinAmountCents - 1, "biweekly", 0)
    /\ ErrorKind(probe.out) = "amount-too-low"

\* C17: the lookup key is the interval, the interval count and the amount in
\* cents, in that order, joined by underscores, whatever the configuration:
\* (1000, week, 2) gives "week_2_1000".
C17_LookupKeyFormat ==
    LET shape == probe.args
        key == probe.out
    IN  Called("generate_lookup_key") =>
            /\ \E m, n \in 1..Len(key) :
                 /\ m < n
                 /\ SubSeq(key, 1, m - 1) = shape.interval
                 /\ SubSeq(key, m, m) = "_"
                 /\ SubSeq(key, m + 1, n - 1) = ToString(shape.interval_count)
                 /\ SubSeq(key, n, n) = "_"
                 /\ SubSeq(key, n + 1, Len(key)) = ToString(shape.amount_cents)
            /\ shape = Shape(1000, "week", 2) => key = "week_2_1000"
            /\ shape = Shape(100, "year", 1) => key = "year_1_100"
            /\ shape = Shape(100000, "month", 36) => key = "month_36_100000"

C17_Witness ==
    /\ Called("generate_lookup_key")
    /\ probe.args = Shape(1000, "week", 2)
    /\ probe.out = "week_2_1000"

\* C18: no shape accepted under the configuration in force has the lookup key
\* of another accepted shape.
C18_LookupKeyInjective ==
    (Called("generate_lookup_key") /\ WithinBounds(probe.args)) =>
        \A a \in AmountProbes, i \in IntervalProbes, c \in CountProbes :
            (WithinBounds(Shape(a, i, c)) /\ generate_lookup_key(a, i, c) = probe.out)
                => Shape(a, i, c) = probe.args

C18_Witness ==
    /\ Called("generate_lookup_key")
    /\ probe.args = Shape(150, "year", 1)
    /\ WithinBounds(probe.args)
    /\ WithinBounds(Shape(50, "year", 11))
    /\ 50 \in AmountProbes
    /\ 11 \in CountProbes

Digit == <<"0", "1", "2", "3", "4", "5", "6", "7", "8", "9">>

\* C19: a multiple of 100 cents is shown as "$" and the dollars with no
\* fractional part; any other amount as "$", the whole dollars, a point and
\* two cent digits.
C19_FormatPriceDisplay ==
    LET cents == probe.args.amount_cents
        str == probe.out
    IN  Called("format_price_display") =>
            /\ cents % 100 = 0
                 => /\ str = "$" \o ToString(cents \div 100)
                    /\ ~Contains(str, ".")
            /\ cents % 100 # 0
                 => /\ Len(str) >= 5
                    /\ SubSeq(str, 1, Len(str) - 3) = "$" \o ToString(cents \div 100)
                    /\ SubSeq(str, Len(str) - 2, Len(str) - 2) = "."
                    /\ SubSeq(str, Len(str) - 1, Len(str) - 1)
                          = Digit[((cents % 100) \div 10) + 1]
                    /\ SubSeq(str, Len(str), Len(str)) = Digit[(cents % 10) + 1]
            /\ cents = 100 => str = "$1"
            /\ cents = 10000 => str = "$100"
            /\ cents = 50 => str = "$0.50"
            /\ cents = 199 => str = "$1.99"
            /\ cents = 1550 => str = "$15.50"

C19_Witness ==
    /\ Called("format_price_display")
    /\ probe.args.amount_cents = 1550
    /\ probe.out = "$15.50"

\* C20: with a count of 1 the frequency is the adverb of a known interval and
\* "every <interval>" for an unknown one; with a count above 1 it is
\* "every <count> <plural>", the plural being days, weeks, months or years, and
\* the interval followed by "s" when unknown.
C20_FormatFrequencyDisplay ==
    LET interval == probe.args.interval
        count == probe.args.interval_count
        known == interval \in {"day", "week", "month", "year"}
        adverb == CASE interval = "day" -> "daily"
                    [] interval = "week" -> "weekly"
                    [] interval = "month" -> "monthly"
                    [] interval = "year" -> "yearly"
        plural == CASE interval = "day" -> "days"
                    [] interval = "week" -> "weeks"
                    [] interval = "month" -> "months"
                    [] interval = "year" -> "years"
                    [] OTHER -> interval \o "s"
    IN  Called("format_frequency_display") =>
            /\ (count = 1 /\ known) => probe.out = adverb
            /\ (count = 1 /\ ~known) => probe.out = "every " \o interval
            /\ count > 1 => probe.out = "every " \o ToString(count) \o " " \o plural
            /\ (interval = "month" /\ count = 3) => probe.out = "every 3 months"
            /\ (interval = "day" /\ count = 7) => probe.out = "every 7 days"

C20_Witness ==
    /\ Called("format_frequency_display")
    /\ probe.args.interval = "biweekly"
    /\ probe.args.interval_count = 3
    /\ probe.out = "every 3 biweeklys"

\* C26: no step changes the id or the lookup key of a price that exists at the
\* processor; a step leaves the processor's prices alone or adds one price.
C26_ExistingPricesNeverMutated ==
    [][/\ Len(remote') \in {Len(remote), Len(remote) + 1}
       /\ \A n \in DOMAIN remote :
            /\ remote'[n].id = remote[n].id
            /\ remote'[n].lookup_key = remote[n].lookup_key]_vars

\* C27: a price id returned for a shape is that of a price at the processor
\* that was created for the shape's lookup key, with the shape's amount,
\* interval and interval count.
C27_ReturnedPriceMatchesShape ==
    \A p \in Callers :
        (Done(p) /\ IsPriceId(result[p])) =>
            \E n \in DOMAIN remote :
                /\ remote[n].id = result[p].value
                /\ remote[n].unit_amount = args[p].amount_cents
                /\ remote[n].interval = args[p].interval
                /\ remote[n].interval_count = args[p].interval_count
                /\ CreatedFor(remote[n]) = KeyOf(args[p])

C27_Witness ==
    \E p \in Callers :
        /\ Done(p)
        /\ IsPriceId(result[p])
        /\ Has(trace[p], "list_hit")
        /\ Len(remote) = 2

\* C24: has_subscription is true exactly when subscription_id is not None and
\* is_active exactly when subscription_status is "active": a card with a
\* canceled subscription has a subscription that is not active, a card with no
\* subscription has neither.
C24_CardStatusProperties ==
    LET card == probe.args
    IN  /\ Called("has_subscription") =>
              /\ probe.out = TRUE <=> Len(card.subscription_id) = 1
              /\ (card.subscription_id = <<"sub_123">>
                    /\ card.subscription_status = <<"canceled">>) => probe.out = TRUE
              /\ (card.subscription_id = <<>> /\ card.subscription_status = <<>>)
                    => probe.out = FALSE
        /\ Called("is_active") =>
              /\ probe.out = TRUE <=> card.subscription_status = <<"active">>
              /\ card.subscription_status = <<"canceled">> => probe.out = FALSE
              /\ card.subscription_status = <<>> => probe.out = FALSE

C24_Witness ==
    /\ Called("has_subscription")
    /\ probe.args.subscription_id = <<"sub_123">>
    /\ probe.args.subscription_status = <<"canceled">>
    /\ probe.out = TRUE

\* C25: the price display is None without an amount; the formatted amount
\* alone without an interval; "<amount>/<interval>" when the interval count is
\* 1 or unset; "<amount> every <count> <plural>" when the count is above 1.
C25_SubscriptionPriceDisplay ==
    LET card == probe.args
        cents == card.subscription_amount_cents
        interval == card.subscription_interval
        count == card.subscription_interval_count
        amount == format_price_display(cents[1])
        plural == CASE interval = <<"day">> -> "days"
                    [] interval = <<"week">> -> "weeks"
                    [] interval = <<"month">> -> "months"
                    [] interval = <<"year">> -> "years"
                    [] OTHER -> interval[1] \o "s"
    IN  Called("subscription_price_display") =>
            /\ cents = <<>> => probe.out = <<>>
            /\ (cents # <<>> /\ interval \in {<<>>, <<"">>}) => probe.out = <<amount>>
            /\ (cents # <<>> /\ interval \notin {<<>>, <<"">>}
                  /\ count \in {<<>>, <<1>>})
                  => probe.out = <<amount \o "/" \o interval[1]>>
            /\ (cents # <<>> /\ interval \notin {<<>>, <<"">>}
                  /\ count # <<>> /\ count # <<0>> /\ count # <<1>>)
                  => probe.out = <<amount \o " every " \o ToString(count[1])
                                      \o " " \o plural>>
            /\ (cents = <<500>> /\ interval = <<"month">> /\ count = <<1>>)
                  => probe.out = <<"$5/month">>
            /\ (cents = <<1000>> /\ interval = <<"month">> /\ count = <<3>>)
                  => probe.out = <<"$10 every 3 months">>

C25_Witness ==
    /\ Called("subscription_price_display")
    /\ probe.args.subscription_amount_cents = <<1000>>
    /\ probe.args.subscription_interval = <<"month">>
    /\ probe.args.subscription_interval_count = <<3>>
    /\ probe.out = <<"$10 every 3 months">>

\* ------------------------------------------------- vocabulary of the view
Responded(p) == view[p].pc = "responded"
CallsTo(p, op) == {n \in DOMAIN view[p].calls : view[p].calls[n].op = op}

\* the request got as far as reading a non-empty payment_method_id (line 202)
ReadPaymentMethod(request) ==
    /\ request.user # ""
    /\ request.valid_json
    /\ request.payment_method_id \notin {<<>>, <<"">>}

\* C21: when get_or_create_price raises InvalidPricingParametersError the view
\* answers 400 with the validation message as its error; when it raises another
\* PricingError (no product configured, creation failed) the view answers 500
\* with the message in its error; no subscription is created either way.
C21_PricingErrorSurfacing ==
    \A p \in Callers :
        Responded(p) =>
            /\ result[p].kind = "InvalidPricingParametersError"
                 => /\ view[p].response.status = 400
                    /\ view[p].response.error = result[p].value
                    /\ CallsTo(p, "Subscription.create") = {}
            /\ result[p].kind = "PricingError"
                 => /\ view[p].response.status = 500
                    /\ Contains(view[p].response.error, result[p].value)
                    /\ CallsTo(p, "Subscription.create") = {}

C21_Witness ==
    \E p \in Callers :
        /\ Responded(p)
        /\ result[p].kind = "InvalidPricingParametersError"
        /\ view[p].response.status = 400
        /\ Contains(view[p].response.error, "Invalid interval")

\* C22: a request that read a non-empty payment_method_id and is answered with
\* a failure has called detach exactly once, for that payment method; one
\* answered with success has not called detach.
C22_CleanupOnFailure ==
    \A p \in Callers :
        (Responded(p) /\ ReadPaymentMethod(view[p].request)) =>
            IF view[p].response.status = 200
            THEN CallsTo(p, "PaymentMethod.detach") = {}
            ELSE /\ Cardinality(CallsTo(p, "PaymentMethod.detach")) = 1
                 /\ \A n \in CallsTo(p, "PaymentMethod.detach") :
                      view[p].calls[n].payment_method
                          = view[p].request.payment_method_id[1]

C22_Witness ==
    \E p \in Callers :
        /\ Responded(p)
        /\ view[p].response.status = 500
        /\ CallsTo(p, "Subscription.create") # {}
        /\ Cardinality(CallsTo(p, "PaymentMethod.detach")) = 1

\* C23: a request that is unauthenticated, is not JSON or lacks
\* payment_method_id is answered 401, 400 and 400 in one step that calls the
\* processor for nothing (no retrieve, detach, price lookup or creation, no
\* subscription) and writes nothing.
C23_EarlyRejection ==
    [][\A p \in Callers :
         (/\ view[p].pc = "idle"
          /\ view'[p].pc # "idle"
          /\ ~ReadPaymentMethod(view'[p].request))
         => /\ view'[p].pc = "responded"
            /\ view'[p].response.status
                  = (IF view'[p].request.user = "" THEN 401 ELSE 400)
            /\ view'[p].calls = <<>>
            /\ UNCHANGED <<mirror, remote, nCalls, pc, trace, payment_methods,
                           subscriptions>>]_vars

C23_Witness ==
    \E p \in Callers :
        /\ Responded(p)
        /\ view[p].request.user = ""
        /\ view[p].request.payment_method_id = <<"pm_alice">>
        /\ view[p].response.status = 401
        /\ remote # <<>>

\* C28: a request that called Subscription.create had first retrieved the
\* payment method and found it attached to the user's customer, and then got a
\* price id from get_or_create_price; the subscription is created once, with
\* that price id, that payment method and that customer.
C28_SubscriptionOrdering ==
    \A p \in Callers :
        CallsTo(p, "Subscription.create") # {} =>
            LET request == view[p].request
                retrieve == view[p].calls[1]
                create == view[p].calls[2]
            IN  /\ Cardinality(CallsTo(p, "Subscription.create")) = 1
                /\ retrieve.op = "PaymentMethod.retrieve"
                /\ retrieve.payment_method = request.payment_method_id[1]
                /\ request.user \in DOMAIN Customers
                /\ retrieve.customer = Customers[request.user]
                /\ create.op = "Subscription.create"
                /\ Done(p)
                /\ result[p] = Returned(create.price)
                /\ create.payment_method = request.payment_method_id[1]
                /\ create.customer = retrieve.customer

C28_Witness ==
    \E p \in Callers :
        /\ Responded(p)
        /\ view[p].response.status = 200
        /\ Len(subscriptions) = 1
        /\ subscriptions[1].price = result[p].value

\* C29: the view calls detach only for a payment method it retrieved and found
\* attached to the requesting user's customer; a request with another
\* customer's payment method is answered 403 without a detach.
C29_DetachOnlyOwnPaymentMethod ==
    \A p \in Callers :
        \A n \in CallsTo(p, "PaymentMethod.detach") :
            /\ view[p].request.user \in DOMAIN Customers
            /\ \E m \in CallsTo(p, "PaymentMethod.retrieve") :
                 /\ m < n
                 /\ view[p].calls[m].payment_method = view[p].calls[n].payment_method
                 /\ view[p].calls[m].customer = Customers[view[p].request.user]

\* C30: whenever RequestContextMiddleware is not handling a request, all seven
\* context variables are None, whether the handler returned or raised.
C30_ContextClearedAfterRequest ==
    middleware = "idle" =>
        /\ context_vars.request_id = <<>>
        /\ context_vars.session_id = <<>>
        /\ context_vars.user_id = <<>>
        /\ context_vars.user_email = <<>>
        /\ context_vars.request_path = <<>>
        /\ context_vars.request_method = <<>>
        /\ context_vars.ip_address = <<>>

====
